---- MODULE Spec2Model ----
(***************************************************************************)
(* The bookstore simulation engine: the synchronous message bus (bus.py),  *)
(* the orchestrator BookstoreModel with its purchase and restock handlers  *)
(* and agents (model.py), the seed data (ontology.py) and the socket       *)
(* handlers of the dashboard server that mutate a live simulation          *)
(* (start_simulation.py).                                                  *)
(*                                                                         *)
(* The bus is synchronous: a publish runs every subscribed handler to      *)
(* completion, handlers publish again from inside, and so one agent step   *)
(* or one socket event is one action whose effect is the whole cascade.    *)
(* Handlers are operators from a record of the simulation's fields to the  *)
(* record after the call.  `published' records, for the operation that ran *)
(* last, every publish call in order together with the quantity the        *)
(* event's book had when the call was made (what a subscriber can read).   *)
(*                                                                         *)
(* Arithmetic: prices are whole numbers of LKR; the velocity comparisons   *)
(* r / d >= 1.5, 1.0, 0.5, 0.2 of the code are done by cross               *)
(* multiplication (10*r >= 15*d, ...), which agrees with the floating      *)
(* point comparison for every r and every d in 1..5.                       *)
(*                                                                         *)
(* availableQuantity is always set by seed_data, so the "is not None"      *)
(* fallbacks of the handlers never apply and are not modelled.             *)
(* EmployeeAgent._restock (model.py 59-76) is subscribed to no topic and   *)
(* called from nowhere; it is not part of any behaviour.  The subscribers  *)
(* that main.py and start_simulation.py add to the bus only print, log and *)
(* emit; they assign no field of the simulation and publish nothing.       *)
(*                                                                         *)
(* A tick is StartTick followed by one step per agent of `pending', in any *)
(* order (shuffle_do); socket events of the server run in other threads    *)
(* and are taken between agent steps.  `stepped' counts the step calls of  *)
(* the running tick, `called' lists the handler calls of the last          *)
(* operation and `raised' tells whether it ended in an exception.  The     *)
(* LowStock individuals and the reasoner's inferences are a derived view:  *)
(* `low_stock' and `reasoner_runs' record what run_reasoner_safely did;    *)
(* a run of fewer than five ticks never reaches the periodic call.         *)
(*                                                                         *)
(* Specifications: Spec is a run driven by the server, SpecRun is run() on *)
(* its own, SpecPolicy the restock policy on every input, SpecBus the bus  *)
(* under the three subscription tables, SpecMalformed the handlers on      *)
(* requests with a missing field, SpecLedger the sales ledger some ticks   *)
(* into a run, SpecRoster restock requests between changes of the employee *)
(* roster, SpecMembers a run while customers and employees come and go,    *)
(* SpecHook the program of main.py with its reasoner passes, SpecRaising   *)
(* the bus of main.py with handlers that raise.  `parents' tells for every *)
(* publish call of the last operation which event's handler made it.       *)
(*                                                                         *)
(* SpecServer is the server's threads: the handlers of start_simulation,   *)
(* stop_simulation and reset_simulation and every simulation_runner thread *)
(* they have started, each at its position in the code.  A runner works on *)
(* the simulation it was started with; what a tick does to a simulation is *)
(* the subject of Spec, and here a tick counts.  run_reasoner_safely and   *)
(* the emits of the runner assign nothing of the server's state.           *)
(* SpecServerFair adds that a thread that can take a step takes one.       *)
(***************************************************************************)
EXTENDS Integers, Sequences, FiniteSets, TLC

\* ---------------------------------------------------------------- bounds
MaxSteps == 2          \* ticks of one run (the steps argument)
MaxInitQty == 3        \* largest quantity a book starts with
MaxSocketEvents == 1   \* socket events handled during one run
MaxWindow == 3         \* consecutive restock credits remembered

\* ------------------------------------------------------------- constants
LOW_STOCK_THRESHOLD == 3
DEFAULT_MAX_STOCK_LEVEL == 10
RESTOCK_CAP == 6
RECENT_HORIZON == 5      \* sales older than this many steps are pruned
VELOCITY_WINDOW == 5     \* steps the recent velocity is taken over
RESTOCK_DISCOUNT == 200

TOPIC_PURCHASE_REQ == "purchase.request"
TOPIC_PURCHASE_RES == "purchase.result"
TOPIC_RESTOCK_REQ == "restock.request"
TOPIC_RESTOCK_DONE == "restock.done"
Topics == {TOPIC_PURCHASE_REQ, TOPIC_PURCHASE_RES, TOPIC_RESTOCK_REQ, TOPIC_RESTOCK_DONE}

None == "None"         \* Python's None
Missing == "Missing"   \* the payload has no such key
Unset == -1            \* the attribute _next_employee_index does not exist yet

\* The catalogue, in the order of model.books, and the seeded rosters, scaled
\* down from six books, four customers and two employees; EmployeeNames are
\* the names the dashboard may send.
BookList == <<"Book_0", "Book_1">>
Books == {BookList[i] : i \in 1..Len(BookList)}
SeedPrice == [b \in Books |-> IF b = "Book_0" THEN 1250 ELSE 2400]
SeedCustomers == <<"Kasun_Silva">>
SeedEmployees == <<"Emp_0">>
EmployeeNames == {"Emp_0", "Emp_1"}
CustomerNames == {"Kasun_Silva", "Cust_1"}
\* The values the dashboard sends as the new maximum stock level (1..50).
StockLevels == {1, 16}

VARIABLES
    subs,                  \* bus.subs: topic -> handlers in subscription order
    availableQuantity,     \* book.availableQuantity
    hasPrice,              \* book.hasPrice
    purchases,             \* customer.purchases
    transactions,          \* the Transaction individuals, by id
    customers,             \* model.customers
    employees,             \* model.employees
    agents,                \* model.agents, by the individual each one wraps
    restock_threshold,     \* model.restock_threshold
    max_stock_level,       \* model.max_stock_level
    total_transactions,    \* model.total_transactions
    restock_events,        \* model.restock_events
    book_sales_count,      \* model.book_sales_count
    book_sales_recent,     \* model.book_sales_recent
    current_step,          \* model.current_step
    next_employee_index,   \* model._next_employee_index
    pending,               \* agents shuffle_do has still to call in this tick
    stepped,               \* step calls of this tick, per agent it started with
    published,             \* publish calls of the last operation, in order
    called,                \* handler calls of the last operation, in order
    raised,                \* the last operation ended in an exception
    parents,               \* per publish call of the last operation: the event
                           \* whose handler made it, 0 for the operation itself
    credited,              \* employees of the last restock.done events, roster unchanged
    socketEvents,          \* socket events handled so far
    steps,                 \* model.steps: the ticks run() makes
    low_stock,             \* books with a LowStock individual (the derived view)
    reasoner_runs,         \* the calls of run_reasoner_safely so far, in order
    sim,                   \* the server's global sim: the number of the simulation
    sim_running,           \* the server's global sim_running
    runners,               \* the simulation_runner threads started so far
    resetting              \* on_reset handlers asleep before they replace sim

vars == <<subs, availableQuantity, hasPrice, purchases, transactions, customers,
          employees, agents, restock_threshold, max_stock_level, total_transactions,
          restock_events, book_sales_count, book_sales_recent, current_step,
          next_employee_index, pending, stepped, published, called, raised, parents,
          credited, socketEvents, steps, low_stock, reasoner_runs, sim,
          sim_running, runners, resetting>>

Max(a, b) == IF a >= b THEN a ELSE b
Min(a, b) == IF a <= b THEN a ELSE b
Range(s) == {s[i] : i \in 1..Len(s)}

\* ------------------------------------------------------------ the record
\* The simulation's fields as one record, the argument of every handler.
M == [subs |-> subs, availableQuantity |-> availableQuantity, hasPrice |-> hasPrice,
      purchases |-> purchases, transactions |-> transactions, customers |-> customers,
      employees |-> employees, restock_threshold |-> restock_threshold,
      max_stock_level |-> max_stock_level, total_transactions |-> total_transactions,
      restock_events |-> restock_events, book_sales_count |-> book_sales_count,
      book_sales_recent |-> book_sales_recent, current_step |-> current_step,
      next_employee_index |-> next_employee_index, published |-> <<>>,
      called |-> <<>>, raised |-> FALSE, parents |-> <<>>, handling |-> 0]

Payload(customer, book, status, by, cost) ==
    [customer |-> customer, book |-> book, status |-> status, by |-> by, cost |-> cost]

PurchaseReq(customer, book) == Payload(customer, book, None, None, 0)
PurchaseRes(status, customer, book) == Payload(customer, book, status, None, 0)
RestockReq(book) == Payload(None, book, None, None, 0)
RestockDone(book, by, cost) == Payload(None, book, None, by, cost)

\* What one publish call leaves in `published'.
Event(m, topic, payload) ==
    [topic |-> topic, customer |-> payload.customer, book |-> payload.book,
     status |-> payload.status, by |-> payload.by, cost |-> payload.cost,
     qty |-> IF payload.book \in Books THEN m.availableQuantity[payload.book] ELSE 0]

\* An exception leaves the handler; nothing after it runs.
raise_error(m) == [m EXCEPT !.raised = TRUE]

RECURSIVE publish(_, _, _)

\* ------------------------------------------------------ restock handling
\* Variant: the tally is set to one, not incremented.
count_restock_set_to_one(m) == [m EXCEPT !.restock_events = 1]

count_restock(m) == [m EXCEPT !.restock_events = @ + 1]

\* Variant: the targets of the 1.0 and the 0.5 tier are exchanged.
target_stock_tiers_exchanged(recent_sales, d, max_level) ==
    IF 10 * recent_sales >= 15 * d THEN Min(max_level, 25)
    ELSE IF 10 * recent_sales >= 10 * d THEN Min(max_level, 8)
    ELSE IF 10 * recent_sales >= 5 * d THEN Min(max_level, 15)
    ELSE IF 10 * recent_sales >= 2 * d THEN Min(max_level, 5)
    ELSE Min(max_level, 2)

\* Variant: the slow tier starts above a velocity of 0.2, not at it.
target_stock_slow_tier_strict(recent_sales, d, max_level) ==
    IF 10 * recent_sales >= 15 * d THEN Min(max_level, 25)
    ELSE IF 10 * recent_sales >= 10 * d THEN Min(max_level, 15)
    ELSE IF 10 * recent_sales >= 5 * d THEN Min(max_level, 8)
    ELSE IF 10 * recent_sales > 2 * d THEN Min(max_level, 5)
    ELSE Min(max_level, 2)

\* The tier table: recent_velocity = recent_sales / d against 1.5, 1.0, 0.5, 0.2.
target_stock(recent_sales, d, max_level) ==
    IF 10 * recent_sales >= 15 * d THEN Min(max_level, 25)
    ELSE IF 10 * recent_sales >= 10 * d THEN Min(max_level, 15)
    ELSE IF 10 * recent_sales >= 5 * d THEN Min(max_level, 8)
    ELSE IF 10 * recent_sales >= 2 * d THEN Min(max_level, 5)
    ELSE Min(max_level, 2)

\* Variant: the cap of six units per restock is missing.
restock_qty_uncapped(current_qty, recent_sales, step, max_level) ==
    LET target == target_stock(recent_sales, Min(VELOCITY_WINDOW, Max(1, step)), max_level)
        needed_stock == Max(0, target - current_qty)
        fitted == IF current_qty + needed_stock > max_level
                  THEN Max(0, max_level - current_qty)
                  ELSE needed_stock
    IN  IF fitted > 0 THEN fitted ELSE 0

\* Variant: a restock adds one unit at most.
restock_qty_single_unit(current_qty, recent_sales, step, max_level) ==
    LET target == target_stock(recent_sales, Min(VELOCITY_WINDOW, Max(1, step)), max_level)
        needed_stock == Max(0, target - current_qty)
        capped == Min(1, needed_stock)
        fitted == IF current_qty + capped > max_level
                  THEN Max(0, max_level - current_qty)
                  ELSE capped
    IN  IF fitted > 0 THEN fitted ELSE 0

restock_qty(current_qty, recent_sales, step, max_level) ==
    LET target == target_stock(recent_sales, Min(VELOCITY_WINDOW, Max(1, step)), max_level)
        needed_stock == Max(0, target - current_qty)
        capped == Min(RESTOCK_CAP, needed_stock)
        fitted == IF current_qty + capped > max_level
                  THEN Max(0, max_level - current_qty)
                  ELSE capped
    IN  IF fitted > 0 THEN fitted ELSE 0

\* Variant: the cost is charged for the configured restock amount of four
\* units, whatever was added.
restock_cost_of_fixed_amount(qty, price) == 4 * Max(0, price - RESTOCK_DISCOUNT)

\* Variant: the unit cost is not floored at zero.
restock_price_per_book_unfloored(selling_price) == selling_price - RESTOCK_DISCOUNT

restock_price_per_book(selling_price) == Max(0, selling_price - RESTOCK_DISCOUNT)

restock_cost(qty, price) == qty * restock_price_per_book(price)

\* Variant: an index beyond the roster is not wrapped and names nobody.
chosen_employee_unwrapped(roster, index) ==
    IF Len(roster) = 0 \/ (index # Unset /\ index >= Len(roster)) THEN None
    ELSE roster[(IF index = Unset THEN 0 ELSE index) + 1]

chosen_employee(roster, index) ==
    IF Len(roster) = 0 THEN None
    ELSE roster[((IF index = Unset THEN 0 ELSE index) % Len(roster)) + 1]

\* Variant: the index is never advanced.
advance_index_stuck(roster, index) == index

advance_index(roster, index) ==
    IF Len(roster) = 0 THEN index
    ELSE ((IF index = Unset THEN 0 ELSE index) + 1) % Max(1, Len(roster))

perform_restock(m, payload) ==
    LET book == payload.book IN
    IF book = None \/ book = Missing THEN m
    ELSE
        LET chosen == chosen_employee(m.employees, m.next_employee_index)
            current_qty == m.availableQuantity[book]
            qty == restock_qty(current_qty, Len(m.book_sales_recent[book]),
                               m.current_step, m.max_stock_level)
            m1 == [m EXCEPT !.next_employee_index = advance_index(m.employees, @),
                            !.availableQuantity[book] = current_qty + qty]
        IN  publish(m1, TOPIC_RESTOCK_DONE,
                    RestockDone(book, chosen, restock_cost(qty, m.hasPrice[book])))

\* ----------------------------------------------------- purchase handling
\* Variant: only a negative quantity counts as out of stock.
out_of_stock_negative_only(q) == q < 0

out_of_stock(q) == q <= 0

\* Variant: a sale made five steps ago is kept.
prune_recent_keeping_five_back(recent, step) ==
    SelectSeq(recent, LAMBDA s : s >= Max(0, step - RECENT_HORIZON))

prune_recent(recent, step) ==
    SelectSeq(recent, LAMBDA s : s > Max(0, step - RECENT_HORIZON))

\* The fields a name is made of, between its underscores.
name_fields(name) ==
    CASE name = "Kasun_Silva" -> <<"Kasun", "Silva">>
      [] name = "Cust_1" -> <<"Cust", "1">>
      [] name = "Book_0" -> <<"Book", "0">>
      [] name = "Book_1" -> <<"Book", "1">>
      [] OTHER -> <<name>>

\* Variant: the id does not carry the transaction counter.
transaction_id_without_counter(cust, book, n) ==
    <<"T">> \o name_fields(cust) \o name_fields(book)

\* f"T_{cust.name}_{book.name}_{self.total_transactions}": the fields of the
\* id string, joined by underscores.
transaction_id(cust, book, n) ==
    <<"T">> \o name_fields(cust) \o name_fields(book) \o <<ToString(n)>>

\* Variant: the threshold test is off by one.
needs_restock_off_by_one(new_qty, threshold) == new_qty < threshold - 1

needs_restock(new_qty, threshold) == new_qty < threshold

\* Variant: the sale is not added to the customer's purchases.
record_sale_without_purchase_list(m, cust, book) ==
    [m EXCEPT
        !.availableQuantity[book] = @ - 1,
        !.book_sales_count[book] = @ + 1,
        !.book_sales_recent[book] =
            prune_recent(Append(@, m.current_step), m.current_step),
        !.transactions = @ \cup {transaction_id(cust, book, m.total_transactions)},
        !.total_transactions = @ + 1]

\* Variant: a sale takes two copies off the shelf and counts one.
count_sale_taking_two(m, book) ==
    [m EXCEPT
        !.availableQuantity[book] = @ - 2,
        !.book_sales_count[book] = @ + 1,
        !.book_sales_recent[book] =
            prune_recent(Append(@, m.current_step), m.current_step)]

\* The decrement and the sales ledger of a sale.
count_sale(m, book) ==
    [m EXCEPT
        !.availableQuantity[book] = @ - 1,
        !.book_sales_count[book] = @ + 1,
        !.book_sales_recent[book] =
            prune_recent(Append(@, m.current_step), m.current_step)]

\* The bookkeeping of a sale, between the stock test and purchase.result.
record_sale(m, cust, book) ==
    [count_sale(m, book) EXCEPT
        !.transactions = @ \cup {transaction_id(cust, book, m.total_transactions)},
        !.purchases[cust] = Append(@, book),
        !.total_transactions = @ + 1]

\* Variant: an out-of-stock request also asks for a restock.
handle_purchase_restocking_when_out(m, payload) ==
    LET cust == payload.customer
        book == payload.book
        q == m.availableQuantity[book]
    IN  IF q <= 0
        THEN publish(publish(m, TOPIC_PURCHASE_RES,
                             PurchaseRes("out_of_stock", cust, book)),
                     TOPIC_RESTOCK_REQ, RestockReq(book))
        ELSE
            LET m1 == [m EXCEPT
                    !.availableQuantity[book] = q - 1,
                    !.book_sales_count[book] = @ + 1,
                    !.book_sales_recent[book] =
                        prune_recent(Append(@, m.current_step), m.current_step),
                    !.transactions = @ \cup {transaction_id(cust, book, m.total_transactions)},
                    !.purchases[cust] = Append(@, book),
                    !.total_transactions = @ + 1]
                m2 == publish(m1, TOPIC_PURCHASE_RES, PurchaseRes("ok", cust, book))
            IN  IF m2.availableQuantity[book] < m2.restock_threshold
                THEN publish(m2, TOPIC_RESTOCK_REQ, RestockReq(book))
                ELSE m2

\* Variant: a sale that leaves the book short asks for a restock twice.
handle_purchase_requesting_restock_twice(m, payload) ==
    LET cust == payload.customer
        book == payload.book
    IN  IF cust = Missing \/ book = Missing \/ book = None THEN raise_error(m)
        ELSE IF out_of_stock(m.availableQuantity[book])
        THEN publish(m, TOPIC_PURCHASE_RES, PurchaseRes("out_of_stock", cust, book))
        ELSE IF cust = None THEN raise_error(count_sale(m, book))
        ELSE
            LET m2 == publish(record_sale(m, cust, book), TOPIC_PURCHASE_RES,
                              PurchaseRes("ok", cust, book))
            IN  IF needs_restock(m2.availableQuantity[book], m2.restock_threshold)
                THEN publish(publish(m2, TOPIC_RESTOCK_REQ, RestockReq(book)),
                             TOPIC_RESTOCK_REQ, RestockReq(book))
                ELSE m2

\* payload["customer"] and payload["book"] raise KeyError on a missing key,
\* book.availableQuantity raises on None, and cust.name raises on None once
\* the stock and the ledger have been updated.
handle_purchase(m, payload) ==
    LET cust == payload.customer
        book == payload.book
    IN  IF cust = Missing \/ book = Missing \/ book = None THEN raise_error(m)
        ELSE IF out_of_stock(m.availableQuantity[book])
        THEN publish(m, TOPIC_PURCHASE_RES, PurchaseRes("out_of_stock", cust, book))
        ELSE IF cust = None THEN raise_error(count_sale(m, book))
        ELSE
            LET m2 == publish(record_sale(m, cust, book), TOPIC_PURCHASE_RES,
                              PurchaseRes("ok", cust, book))
            IN  IF needs_restock(m2.availableQuantity[book], m2.restock_threshold)
                THEN publish(m2, TOPIC_RESTOCK_REQ, RestockReq(book))
                ELSE m2

\* ---------------------------------------------------------------- the bus
\* The loggers of main.py read payload["customer"] and payload["book"] and
\* print; the handlers of the server catch every exception of their own.
\* Neither assigns a field of the simulation.
terminal_logger(m, keys, payload) ==
    IF \E key \in keys : payload[key] = Missing THEN raise_error(m) ELSE m

call(m, handler, payload) ==
    CASE handler = "_handle_purchase" -> handle_purchase(m, payload)
      [] handler = "_perform_restock" -> perform_restock(m, payload)
      [] handler = "_count_restock" -> count_restock(m)
      [] handler = "log_purchase_request" ->
            terminal_logger(m, {"customer", "book"}, payload)
      [] handler = "log_purchase_result" ->
            terminal_logger(m, {"customer", "book", "status"}, payload)
      [] handler = "log_restock_request" -> terminal_logger(m, {"book"}, payload)
      [] handler = "log_restock_done" -> terminal_logger(m, {"book"}, payload)
      [] handler = "purchase_handler" -> m
      [] handler = "restock_handler" -> m

\* self.subs.get(topic, [])
subscribers(s, topic) == IF topic \in DOMAIN s THEN s[topic] ELSE <<>>

\* Variant: the bus goes on to the next handler when one has raised.
RECURSIVE deliver_past_exception(_, _, _, _, _)
deliver_past_exception(m, k, handlers, i, payload) ==
    IF i > Len(handlers) THEN m
    ELSE LET returned == call([m EXCEPT !.called =
                                  Append(@, [handler |-> handlers[i], event |-> k,
                                             payload |-> payload,
                                             qty |-> Event(m, "", payload).qty]),
                                        !.handling = k],
                              handlers[i], payload)
         IN  deliver_past_exception([returned EXCEPT !.handling = m.handling],
                                    k, handlers, i + 1, payload)

\* for h in ...: h(payload), for the event published as number k; an
\* exception of a handler ends the loop.  While a handler runs, `handling'
\* is the event it was called for; `qty' is the quantity the handler finds
\* the payload's book at.
RECURSIVE deliver(_, _, _, _, _)
deliver(m, k, handlers, i, payload) ==
    IF i > Len(handlers) \/ m.raised THEN m
    ELSE LET returned == call([m EXCEPT !.called =
                                  Append(@, [handler |-> handlers[i], event |-> k,
                                             payload |-> payload,
                                             qty |-> Event(m, "", payload).qty]),
                                        !.handling = k],
                              handlers[i], payload)
         IN  deliver([returned EXCEPT !.handling = m.handling],
                     k, handlers, i + 1, payload)

Reverse(seq) == [i \in 1..Len(seq) |-> seq[Len(seq) + 1 - i]]

\* Variant: the handlers are called last subscribed first.
publish_last_subscribed_first(m, topic, payload) ==
    IF m.raised THEN m
    ELSE deliver([m EXCEPT !.published = Append(@, Event(m, topic, payload)),
                           !.parents = Append(@, m.handling)],
                 Len(m.published) + 1, Reverse(subscribers(m.subs, topic)), 1,
                 payload)

publish(m, topic, payload) ==
    IF m.raised THEN m
    ELSE deliver([m EXCEPT !.published = Append(@, Event(m, topic, payload)),
                           !.parents = Append(@, m.handling)],
                 Len(m.published) + 1, subscribers(m.subs, topic), 1, payload)

\* MessageBus.subscribe
subscribe(s, topic, handler) ==
    IF topic \in DOMAIN s THEN [s EXCEPT ![topic] = Append(@, handler)]
    ELSE [t \in DOMAIN s \cup {topic} |-> IF t = topic THEN <<handler>> ELSE s[t]]

\* Variant: the restock handler is subscribed twice.
InitSubs_restock_twice ==
    [t \in Topics |->
        CASE t = TOPIC_PURCHASE_REQ -> <<"_handle_purchase">>
          [] t = TOPIC_RESTOCK_REQ -> <<"_perform_restock", "_perform_restock">>
          [] t = TOPIC_RESTOCK_DONE -> <<"_count_restock">>
          [] OTHER -> <<>>]

\* MessageBus.__init__: self.subs = {}
EmptySubs == <<>>

\* The subscriptions BookstoreModel.__init__ makes.
InitSubs ==
    subscribe(subscribe(subscribe(EmptySubs,
        TOPIC_PURCHASE_REQ, "_handle_purchase"),
        TOPIC_RESTOCK_REQ, "_perform_restock"),
        TOPIC_RESTOCK_DONE, "_count_restock")

\* setup_terminal_logging of main.py: a logger on every topic.
setup_terminal_logging(s) ==
    subscribe(subscribe(subscribe(subscribe(s,
        TOPIC_PURCHASE_REQ, "log_purchase_request"),
        TOPIC_PURCHASE_RES, "log_purchase_result"),
        TOPIC_RESTOCK_REQ, "log_restock_request"),
        TOPIC_RESTOCK_DONE, "log_restock_done")

\* create_simulation of the server: the two forwarding handlers.
create_simulation_subs(s) ==
    subscribe(subscribe(s,
        TOPIC_PURCHASE_RES, "purchase_handler"),
        TOPIC_RESTOCK_DONE, "restock_handler")

\* ------------------------------------------------------------ bookkeeping
LastN(s, n) == IF Len(s) <= n THEN s ELSE SubSeq(s, Len(s) - n + 1, Len(s))

Credits(log) ==
    LET done == SelectSeq(log, LAMBDA e : e.topic = TOPIC_RESTOCK_DONE)
    IN  [i \in 1..Len(done) |-> done[i].by]

\* The state after an operation that left the simulation as m.
Commit(m) ==
    /\ subs' = m.subs
    /\ availableQuantity' = m.availableQuantity
    /\ hasPrice' = m.hasPrice
    /\ purchases' = m.purchases
    /\ transactions' = m.transactions
    /\ customers' = m.customers
    /\ employees' = m.employees
    /\ restock_threshold' = m.restock_threshold
    /\ max_stock_level' = m.max_stock_level
    /\ total_transactions' = m.total_transactions
    /\ restock_events' = m.restock_events
    /\ book_sales_count' = m.book_sales_count
    /\ book_sales_recent' = m.book_sales_recent
    /\ current_step' = m.current_step
    /\ next_employee_index' = m.next_employee_index
    /\ published' = m.published
    /\ called' = m.called
    /\ raised' = m.raised
    /\ parents' = m.parents
    /\ credited' = IF m.employees = employees
                   THEN LastN(credited \o Credits(m.published), MaxWindow)
                   ELSE <<>>
    /\ UNCHANGED <<steps, low_stock, reasoner_runs, sim, sim_running, runners,
                   resetting>>

\* ------------------------------------------------------------------- Init
\* seed_data and the fields BookstoreModel.__init__ sets: books with a
\* quantity each, the seeded rosters, one agent per customer and per employee.
InitFields ==
    /\ availableQuantity \in [Books -> 0..MaxInitQty]
    /\ hasPrice = SeedPrice
    /\ purchases = [c \in Range(SeedCustomers) |-> <<>>]
    /\ transactions = {}
    /\ customers = SeedCustomers
    /\ employees = SeedEmployees
    /\ agents = Range(SeedCustomers) \cup Range(SeedEmployees)
    /\ restock_threshold = LOW_STOCK_THRESHOLD
    /\ max_stock_level = DEFAULT_MAX_STOCK_LEVEL
    /\ total_transactions = 0
    /\ restock_events = 0
    /\ book_sales_count = [b \in Books |-> 0]
    /\ book_sales_recent = [b \in Books |-> <<>>]
    /\ current_step = 0
    /\ next_employee_index = Unset
    /\ pending = {}
    /\ stepped = <<>>
    /\ published = <<>>
    /\ called = <<>>
    /\ raised = FALSE
    /\ parents = <<>>
    /\ credited = <<>>
    /\ socketEvents = 0
    /\ low_stock = {}
    /\ reasoner_runs = <<>>
    /\ sim = 1
    /\ sim_running = FALSE
    /\ runners = <<>>
    /\ resetting = 0

Init ==
    /\ subs = InitSubs
    /\ steps = MaxSteps
    /\ InitFields

\* ---------------------------------------------------------------- actions
\* BookstoreModel.step: the counter advances and shuffle_do takes the list
\* of agents it will call, in an order of its choosing.
\* Variant: the employees' agents are left out of the list.
StartTick_without_employees ==
    /\ pending = {}
    /\ current_step < steps
    /\ pending' = agents \ EmployeeNames
    /\ stepped' = [a \in agents |-> 0]
    /\ Commit([M EXCEPT !.current_step = @ + 1])
    /\ UNCHANGED <<agents, socketEvents>>

StartTick ==
    /\ pending = {}
    /\ current_step < steps
    /\ pending' = agents
    /\ stepped' = [a \in agents |-> 0]
    /\ Commit([M EXCEPT !.current_step = @ + 1])
    /\ UNCHANGED <<agents, socketEvents>>

\* CustomerAgent.step: the two random draws decide whether it asks for a
\* book, random.choice which one.
CustomerStep(a) ==
    /\ a \in pending
    /\ a \in DOMAIN purchases
    /\ pending' = pending \ {a}
    /\ stepped' = [stepped EXCEPT ![a] = @ + 1]
    /\ \E book \in Books \cup {None} :
          IF book = None
          THEN Commit(M)
          ELSE Commit(publish(M, TOPIC_PURCHASE_REQ, PurchaseReq(a, book)))
    /\ UNCHANGED <<agents, socketEvents>>

\* Variant: a book at the threshold counts as low.
low_stock_books_at_threshold(m) ==
    {b \in Books : m.availableQuantity[b] <= m.restock_threshold}

low_stock_books(m) ==
    {b \in Books : m.availableQuantity[b] < m.restock_threshold}

\* Variant: the employee's agent restocks the book itself, as
\* EmployeeAgent._restock would, and publishes restock.done.
EmployeeStep_restocking_itself(a) ==
    /\ a \in pending
    /\ a \in EmployeeNames
    /\ pending' = pending \ {a}
    /\ stepped' = [stepped EXCEPT ![a] = @ + 1]
    /\ \E book \in low_stock_books(M) \cup {None} :
          IF book = None
          THEN Commit(M)
          ELSE Commit(publish([M EXCEPT !.availableQuantity[book] = @ + 2],
                              TOPIC_RESTOCK_DONE, RestockDone(book, a, 0)))
    /\ UNCHANGED <<agents, socketEvents>>

\* EmployeeAgent.step: the proactive check.
EmployeeStep(a) ==
    /\ a \in pending
    /\ a \in EmployeeNames
    /\ pending' = pending \ {a}
    /\ stepped' = [stepped EXCEPT ![a] = @ + 1]
    /\ \E book \in low_stock_books(M) \cup {None} :
          IF book = None
          THEN Commit(M)
          ELSE Commit(publish(M, TOPIC_RESTOCK_REQ, RestockReq(book)))
    /\ UNCHANGED <<agents, socketEvents>>

\* ---------------------------------------------------------- socket events
\* BookstoreModel.add_employee: a new agent, and the entity joins the roster.
add_employee(m, e) == [m EXCEPT !.employees = Append(@, e)]

\* BookstoreModel.remove_employee: list.remove drops the first occurrence.
remove_employee(m, e) ==
    [m EXCEPT !.employees = SelectSeq(@, LAMBDA x : x # e)]

\* on_add_employee: refused when an Employee of that name exists.
on_add_employee(name) ==
    /\ socketEvents < MaxSocketEvents
    /\ name \notin Range(employees)
    /\ Commit(add_employee(M, name))
    /\ agents' = agents \cup {name}
    /\ socketEvents' = socketEvents + 1
    /\ UNCHANGED <<pending, stepped>>

\* on_remove_employee: refused when no Employee of that name exists.  The
\* agent leaves model.agents; the list shuffle_do took for the running tick
\* is not touched.
on_remove_employee(name) ==
    /\ socketEvents < MaxSocketEvents
    /\ name \in Range(employees)
    /\ Commit(remove_employee(M, name))
    /\ agents' = agents \ {name}
    /\ socketEvents' = socketEvents + 1
    /\ UNCHANGED <<pending, stepped>>

\* BookstoreModel.add_customer: a new agent, and the entity, created by the
\* server with no purchases, joins the roster.
add_customer(m, c) ==
    [m EXCEPT !.customers = Append(@, c),
              !.purchases = [x \in DOMAIN @ \cup {c} |-> IF x = c THEN <<>> ELSE @[x]]]

\* BookstoreModel.remove_customer: list.remove drops the first occurrence.
remove_customer(m, c) ==
    [m EXCEPT !.customers = SelectSeq(@, LAMBDA x : x # c)]

\* Variant: the agent of a removed customer stays registered.
on_remove_customer_keeping_agent(name) ==
    /\ socketEvents < MaxSocketEvents
    /\ name \in Range(customers)
    /\ Commit(remove_customer(M, name))
    /\ socketEvents' = socketEvents + 1
    /\ UNCHANGED <<agents, pending, stepped>>

\* on_add_customer: refused when a Customer of that name exists.
on_add_customer(name) ==
    /\ socketEvents < MaxSocketEvents
    /\ name \notin Range(customers)
    /\ Commit(add_customer(M, name))
    /\ agents' = agents \cup {name}
    /\ socketEvents' = socketEvents + 1
    /\ UNCHANGED <<pending, stepped>>

\* on_remove_customer: refused when no Customer of that name exists.  The
\* agent leaves model.agents; the list shuffle_do took for the running tick
\* is not touched.
on_remove_customer(name) ==
    /\ socketEvents < MaxSocketEvents
    /\ name \in Range(customers)
    /\ Commit(remove_customer(M, name))
    /\ agents' = agents \ {name}
    /\ socketEvents' = socketEvents + 1
    /\ UNCHANGED <<pending, stepped>>

\* The test of on_update_stock_level on one book: is a restock requested?
\* (recent_velocity >= 0.5 and qty < 0.4 * level, or >= 0.2 and < 0.2 * level,
\* or qty < 0.1 * level.)
wants_restock(current_qty, recent_sales, step, stock_level) ==
    LET d == Min(VELOCITY_WINDOW, Max(1, step)) IN
    IF 10 * recent_sales >= 5 * d /\ 10 * current_qty < 4 * stock_level THEN TRUE
    ELSE IF 10 * recent_sales >= 2 * d /\ 10 * current_qty < 2 * stock_level THEN TRUE
    ELSE 10 * current_qty < stock_level

RECURSIVE restock_books(_, _, _)
restock_books(m, i, stock_level) ==
    IF i > Len(BookList) THEN m
    ELSE LET book == BookList[i]
             m1 == IF wants_restock(m.availableQuantity[book],
                                    Len(m.book_sales_recent[book]),
                                    m.current_step, stock_level)
                   THEN publish(m, TOPIC_RESTOCK_REQ, RestockReq(book))
                   ELSE m
         IN  restock_books(m1, i + 1, stock_level)

\* on_update_stock_level: the new maximum, then a restock request for every
\* book the new level makes short.
on_update_stock_level(stock_level) ==
    /\ socketEvents < MaxSocketEvents
    /\ Commit(restock_books([M EXCEPT !.max_stock_level = stock_level], 1, stock_level))
    /\ socketEvents' = socketEvents + 1
    /\ UNCHANGED <<agents, pending, stepped>>

Next ==
    \/ StartTick
    \/ \E a \in agents \cup pending : CustomerStep(a)
    \/ \E a \in agents \cup pending : EmployeeStep(a)
    \/ \E name \in EmployeeNames : on_add_employee(name)
    \/ \E name \in EmployeeNames : on_remove_employee(name)
    \/ \E level \in StockLevels : on_update_stock_level(level)

Spec == Init /\ [][Next]_vars

\* BookstoreModel.run on its own, as main.py calls it: ticks and agent steps.
RunNext ==
    \/ StartTick
    \/ \E a \in agents \cup pending : CustomerStep(a)
    \/ \E a \in agents \cup pending : EmployeeStep(a)

SpecRun == Init /\ [][RunNext]_vars

\* ------------------------------------------------- the restock policy alone
MaxPolicyRestocks == 1 \* restock requests published in one run

\* An external caller publishes restock.request for a book.
RestockRequest(book) ==
    /\ restock_events < MaxPolicyRestocks
    /\ Commit(publish(M, TOPIC_RESTOCK_REQ, RestockReq(book)))
    /\ UNCHANGED <<agents, pending, stepped, socketEvents>>

MaxPolicyQty == 27     \* largest quantity the policy is applied to
MaxPolicySales == 8    \* largest number of recent sales
MaxPolicyStep == 6     \* largest current step
PolicyLevels == {1, 2, 5, 8, 10, 15, 25, 26}   \* maximum stock levels
PolicyPrices == {150, 200, 1250}

\* Every quantity, recent-sales count, step and maximum stock level within
\* the bounds; sales exist only once a tick has run.
PolicyInit ==
    /\ subs = InitSubs
    /\ \E q \in 0..MaxPolicyQty : availableQuantity = [b \in Books |-> q]
    /\ \E p \in PolicyPrices : hasPrice = [b \in Books |-> p]
    /\ purchases = [c \in Range(SeedCustomers) |-> <<>>]
    /\ transactions = {}
    /\ customers = SeedCustomers
    /\ employees = SeedEmployees
    /\ agents = Range(SeedCustomers) \cup Range(SeedEmployees)
    /\ restock_threshold = LOW_STOCK_THRESHOLD
    /\ max_stock_level \in PolicyLevels
    /\ current_step \in 0..MaxPolicyStep
    /\ \E r \in 0..MaxPolicySales :
          /\ r > 0 => current_step > 0
          /\ book_sales_count = [b \in Books |-> r]
          /\ book_sales_recent = [b \in Books |-> [i \in 1..r |-> current_step]]
          /\ total_transactions = r * Cardinality(Books)
    /\ restock_events = 0
    /\ next_employee_index = Unset
    /\ pending = {}
    /\ stepped = <<>>
    /\ published = <<>>
    /\ called = <<>>
    /\ raised = FALSE
    /\ parents = <<>>
    /\ credited = <<>>
    /\ socketEvents = 0
    /\ steps = MaxSteps
    /\ low_stock = {}
    /\ reasoner_runs = <<>>
    /\ sim = 1
    /\ sim_running = FALSE
    /\ runners = <<>>
    /\ resetting = 0

PolicyNext == \E book \in Books : RestockRequest(book)

SpecPolicy == PolicyInit /\ [][PolicyNext]_vars

\* ------------------------------------------------------ malformed requests
\* A caller publishes purchase.request with the given customer and book.
PublishPurchaseRequest(customer, book) ==
    /\ Commit(publish(M, TOPIC_PURCHASE_REQ, PurchaseReq(customer, book)))
    /\ UNCHANGED <<agents, pending, stepped, socketEvents>>

\* Requests whose customer or book is None or not in the payload at all.
MalformedNext ==
    \/ \E customer \in Range(customers) \cup {None, Missing} :
       \E book \in Books \cup {None, Missing} :
          /\ customer \in {None, Missing} \/ book \in {None, Missing}
          /\ PublishPurchaseRequest(customer, book)
    \/ \E book \in {None, Missing} : RestockRequest(book)

SpecMalformed == Init /\ [][MalformedNext]_vars

\* ------------------------------------------------------------ the bus alone
MaxBusEvents == 2      \* sales and restocks of one run

\* A caller publishes an event of any topic.
BusPublish(topic, payload) ==
    /\ total_transactions + restock_events < MaxBusEvents
    /\ Commit(publish(M, topic, payload))
    /\ UNCHANGED <<agents, pending, stepped, socketEvents>>

\* The bus of the bare model, of main.py and of the server.
BusInit ==
    /\ subs \in {InitSubs, setup_terminal_logging(InitSubs),
                 create_simulation_subs(InitSubs)}
    /\ steps = MaxSteps
    /\ InitFields

BusNext ==
    \/ \E c \in Range(customers) : \E b \in Books :
          BusPublish(TOPIC_PURCHASE_REQ, PurchaseReq(c, b))
    \/ \E c \in Range(customers) : \E b \in Books :
       \E status \in {"ok", "out_of_stock"} :
          BusPublish(TOPIC_PURCHASE_RES, PurchaseRes(status, c, b))
    \/ \E b \in Books : BusPublish(TOPIC_RESTOCK_REQ, RestockReq(b))
    \/ \E b \in Books : \E by \in Range(employees) \cup {None} :
          BusPublish(TOPIC_RESTOCK_DONE, RestockDone(b, by, 0))

SpecBus == BusInit /\ [][BusNext]_vars

\* -------------------------------------------------- the sales ledger alone
MaxLedgerStep == 7     \* largest current step
MaxLedgerSales == 2    \* sales in a window to begin with
MaxLedgerQty == 4      \* largest quantity to begin with

\* The windows the pruning can leave behind at or before the given step: one
\* customer's sales in ticks of increasing number, none older than the last
\* one's threshold.
LedgerWindows(step) ==
    {w \in UNION {[1..n -> 1..step] : n \in 0..MaxLedgerSales} :
        /\ \A i \in 1..(Len(w) - 1) : w[i] < w[i + 1]
        /\ \A i \in 1..Len(w) : w[i] > Max(0, w[Len(w)] - RECENT_HORIZON)}

\* A run some ticks in: the customer has bought the first book at the steps
\* of the window and nothing else, and ticks may have passed since.  A sale
\* that leaves a book under the threshold has it restocked at once, so a
\* book that was sold is not under the threshold.
LedgerInit ==
    /\ subs = InitSubs
    /\ availableQuantity \in [Books -> 0..MaxLedgerQty]
    /\ hasPrice = SeedPrice
    /\ customers = SeedCustomers
    /\ employees = SeedEmployees
    /\ agents = Range(SeedCustomers) \cup Range(SeedEmployees)
    /\ restock_threshold = LOW_STOCK_THRESHOLD
    /\ max_stock_level = DEFAULT_MAX_STOCK_LEVEL
    /\ current_step \in 1..MaxLedgerStep
    /\ \E w \in LedgerWindows(current_step) :
          /\ w # <<>> => availableQuantity[BookList[1]] >= LOW_STOCK_THRESHOLD
          /\ book_sales_recent = [b \in Books |-> IF b = BookList[1] THEN w ELSE <<>>]
          /\ book_sales_count = [b \in Books |-> IF b = BookList[1] THEN Len(w) ELSE 0]
          /\ purchases = [c \in Range(SeedCustomers) |-> [i \in 1..Len(w) |-> BookList[1]]]
          /\ transactions =
                {transaction_id(SeedCustomers[1], BookList[1], i - 1) : i \in 1..Len(w)}
          /\ total_transactions = Len(w)
    /\ restock_events = 0
    /\ next_employee_index = Unset
    /\ pending = {}
    /\ stepped = <<>>
    /\ published = <<>>
    /\ called = <<>>
    /\ raised = FALSE
    /\ parents = <<>>
    /\ credited = <<>>
    /\ socketEvents = 0
    /\ steps = MaxSteps
    /\ low_stock = {}
    /\ reasoner_runs = <<>>
    /\ sim = 1
    /\ sim_running = FALSE
    /\ runners = <<>>
    /\ resetting = 0

LedgerNext ==
    \/ \E c \in Range(customers) : \E b \in Books :
          /\ total_transactions <= MaxLedgerSales
          /\ PublishPurchaseRequest(c, b)
    \/ \E level \in StockLevels : on_update_stock_level(level)

SpecLedger == LedgerInit /\ [][LedgerNext]_vars

\* ---------------------------------------------------------- the roster alone
MaxRosterOps == 3      \* employees added and removed in one run
MaxRosterRestocks == 3 \* restock requests handled in one run

\* model.add_employee for an employee not on the roster.
AddEmployee(name) ==
    /\ socketEvents < MaxRosterOps
    /\ name \notin Range(employees)
    /\ Commit(add_employee(M, name))
    /\ agents' = agents \cup {name}
    /\ socketEvents' = socketEvents + 1
    /\ UNCHANGED <<pending, stepped>>

\* model.remove_employee for an employee of the roster.
RemoveEmployee(name) ==
    /\ socketEvents < MaxRosterOps
    /\ name \in Range(employees)
    /\ Commit(remove_employee(M, name))
    /\ agents' = agents \ {name}
    /\ socketEvents' = socketEvents + 1
    /\ UNCHANGED <<pending, stepped>>

\* A restock request handled between the changes of the roster.
RosterRestock(book) ==
    /\ restock_events < MaxRosterRestocks
    /\ Commit(publish(M, TOPIC_RESTOCK_REQ, RestockReq(book)))
    /\ UNCHANGED <<agents, pending, stepped, socketEvents>>

RosterNext ==
    \/ \E name \in EmployeeNames : AddEmployee(name)
    \/ \E name \in EmployeeNames : RemoveEmployee(name)
    \/ \E book \in Books : RosterRestock(book)

SpecRoster == Init /\ [][RosterNext]_vars

\* ------------------------------------------- customers and employees coming
\* and going: a run of the server during which the dashboard adds and removes
\* customers and employees, every book starting with the same quantity.
MembersInit ==
    /\ Init
    /\ \A b \in Books : availableQuantity[b] = MaxInitQty

MembersNext ==
    \/ StartTick
    \/ \E a \in agents \cup pending : CustomerStep(a)
    \/ \E a \in agents \cup pending : EmployeeStep(a)
    \/ \E name \in CustomerNames : on_add_customer(name)
    \/ \E name \in CustomerNames : on_remove_customer(name)
    \/ \E name \in EmployeeNames : on_add_employee(name)
    \/ \E name \in EmployeeNames : on_remove_employee(name)

SpecMembers == MembersInit /\ [][MembersNext]_vars

\* ------------------------------------------------------ the reasoner passes
MaxHookSteps == 6      \* largest steps argument of a run with reasoner passes

\* Variant: the periodic pass is made after every fourth tick.
periodic_pass_every_fourth(tick) == tick % 4 = 0

\* (i + 1) % 5 == 0, for the tick i + 1 that was just made.
periodic_pass(tick) == tick % 5 = 0

\* check_low_stock: a LowStock individual for every book under the threshold.
check_low_stock(quantity) == {b \in Books : quantity[b] < LOW_STOCK_THRESHOLD}

PassesAfter(tick, final) ==
    {i \in DOMAIN reasoner_runs :
        reasoner_runs[i].after = tick /\ reasoner_runs[i].final = final}

\* The loop of run() has made a tick and has its periodic pass still to make.
ReasonerDue ==
    /\ pending = {}
    /\ current_step > 0
    /\ periodic_pass(current_step)
    /\ PassesAfter(current_step, FALSE) = {}

\* run_reasoner_safely: check_low_stock and then sync_reasoner, any exception
\* of either caught.  check_low_stock clears the LowStock individuals first,
\* so one that raises leaves some of them behind.
run_reasoner_safely(final) ==
    /\ \E outcome \in {"ok", "check_low_stock raises", "sync_reasoner raises"} :
       \E created \in SUBSET check_low_stock(availableQuantity) :
          /\ outcome # "check_low_stock raises" =>
                created = check_low_stock(availableQuantity)
          /\ low_stock' = created
          /\ reasoner_runs' = Append(reasoner_runs,
                [after |-> current_step, final |-> final, failed |-> outcome # "ok"])
    /\ published' = <<>>
    /\ called' = <<>>
    /\ raised' = FALSE
    /\ parents' = <<>>
    /\ UNCHANGED <<subs, availableQuantity, hasPrice, purchases, transactions,
                   customers, employees, agents, restock_threshold, max_stock_level,
                   total_transactions, restock_events, book_sales_count,
                   book_sales_recent, current_step, next_employee_index, pending,
                   stepped, credited, socketEvents, steps, sim, sim_running,
                   runners, resetting>>

\* run(): the next iteration of the loop begins once the pass of the last
\* one, if it had one, is made.
RunTick == ~ReasonerDue /\ StartTick

PeriodicPass == ReasonerDue /\ run_reasoner_safely(FALSE)

\* main.py: the final pass once run() has returned.
FinalPass ==
    /\ current_step = steps
    /\ pending = {}
    /\ ~ReasonerDue
    /\ \A i \in DOMAIN reasoner_runs : ~reasoner_runs[i].final
    /\ run_reasoner_safely(TRUE)

\* The program of main.py: the bus with the terminal loggers, run() and the
\* final pass, every book seeded with the same quantity.
HookInit ==
    /\ subs = setup_terminal_logging(InitSubs)
    /\ steps \in {MaxHookSteps - 1, MaxHookSteps}
    /\ InitFields
    /\ \E q \in 1..MaxInitQty : availableQuantity = [b \in Books |-> q]

HookNext ==
    \/ RunTick
    \/ \E a \in agents \cup pending : CustomerStep(a)
    \/ \E a \in agents \cup pending : EmployeeStep(a)
    \/ PeriodicPass
    \/ FinalPass

SpecHook == HookInit /\ [][HookNext]_vars

\* ------------------------------------------------------- raising handlers
\* The bus of main.py, where every topic has a logger subscribed after the
\* model's handler: requests with a missing field, and well-formed purchase
\* requests in between.
RaisingInit ==
    /\ subs = setup_terminal_logging(InitSubs)
    /\ steps = MaxSteps
    /\ InitFields

RaisingNext ==
    \/ MalformedNext
    \/ \E c \in Range(customers) : \E b \in Books :
          /\ total_transactions < MaxBusEvents
          /\ PublishPurchaseRequest(c, b)

SpecRaising == RaisingInit /\ [][RaisingNext]_vars

\* ------------------------------------------------------ the server's threads
MaxServerEvents == 3   \* start, stop and reset events of one session
MaxFairEvents == 2     \* the same, of a session whose threads are followed to their end

\* The limits of on_start on the number of steps and its default, scaled
\* down from 10, 100 and 30.
MIN_RUN_STEPS == 2
MAX_RUN_STEPS == 3
DEFAULT_RUN_STEPS == 3
\* The steps a client may send with start_simulation; Unset for none sent.
StepsRequested == {Unset, 1, 2, 3, 4}

\* steps = max(10, min(100, steps)), 30 without data.
run_steps(requested) ==
    IF requested = Unset THEN DEFAULT_RUN_STEPS
    ELSE Max(MIN_RUN_STEPS, Min(MAX_RUN_STEPS, requested))

\* The fields of the simulation, which no thread of the server assigns here.
simulation_fields ==
    <<subs, availableQuantity, hasPrice, purchases, transactions, customers,
      employees, agents, restock_threshold, max_stock_level, total_transactions,
      restock_events, book_sales_count, book_sales_recent, current_step,
      next_employee_index, pending, stepped, published, called, raised, parents,
      credited, steps, low_stock, reasoner_runs>>

\* The runners alive now have had their simulation stopped or replaced.
halt(rs) ==
    [r \in DOMAIN rs |-> IF rs[r].pc # "done" THEN [rs[r] EXCEPT !.halted = TRUE]
                         ELSE rs[r]]

\* on_start, under sim_lock: nothing while sim_running; otherwise a fresh
\* simulation replaces sim and a thread is started on it.
on_start(requested) ==
    /\ socketEvents < MaxServerEvents
    /\ socketEvents' = socketEvents + 1
    /\ IF sim_running
       THEN UNCHANGED <<sim, runners>>
       ELSE /\ sim' = sim + 1
            /\ runners' = Append(halt(runners),
                                 [simulation |-> sim + 1, steps |-> run_steps(requested),
                                  i |-> 0, pc |-> "start", halted |-> FALSE])
    /\ UNCHANGED <<sim_running, resetting>>
    /\ UNCHANGED simulation_fields

\* on_stop: sim_running = False, without the lock.
on_stop ==
    /\ socketEvents < MaxServerEvents
    /\ socketEvents' = socketEvents + 1
    /\ sim_running' = FALSE
    /\ runners' = halt(runners)
    /\ UNCHANGED <<sim, resetting>>
    /\ UNCHANGED simulation_fields

\* on_reset up to its sleep: sim_running = False.
on_reset ==
    /\ socketEvents < MaxServerEvents
    /\ socketEvents' = socketEvents + 1
    /\ sim_running' = FALSE
    /\ runners' = halt(runners)
    /\ resetting' = resetting + 1
    /\ UNCHANGED sim
    /\ UNCHANGED simulation_fields

\* on_reset after its sleep, under sim_lock: a fresh simulation replaces sim.
on_reset_replace ==
    /\ resetting > 0
    /\ resetting' = resetting - 1
    /\ sim' = sim + 1
    /\ runners' = halt(runners)
    /\ UNCHANGED <<sim_running, socketEvents>>
    /\ UNCHANGED simulation_fields

\* simulation_runner, first statement: sim_running = True.
RunnerBegin(r) ==
    /\ runners[r].pc = "start"
    /\ sim_running' = TRUE
    /\ runners' = [runners EXCEPT ![r].pc = "loop"]
    /\ UNCHANGED <<sim, resetting, socketEvents>>
    /\ UNCHANGED simulation_fields

\* The head of the loop: for i in range(simulation.steps), and the break
\* when sim_running is not set.  Either way out leads to the final pass.
RunnerCheck(r) ==
    /\ runners[r].pc = "loop"
    /\ runners' = [runners EXCEPT ![r].pc =
                      IF runners[r].i >= runners[r].steps THEN "final"
                      ELSE IF ~sim_running THEN "final"
                      ELSE "step"]
    /\ UNCHANGED <<sim, sim_running, resetting, socketEvents>>
    /\ UNCHANGED simulation_fields

\* Variant: the loop does not count the ticks it has made.
RunnerTick_not_counting(r) ==
    /\ runners[r].pc = "step"
    /\ \E outcome \in {"ok", "raises"} :
          IF outcome = "ok"
          THEN /\ runners' = [runners EXCEPT ![r].pc = "loop"]
               /\ UNCHANGED sim_running
          ELSE /\ runners' = [runners EXCEPT ![r].pc = "done"]
               /\ sim_running' = FALSE
    /\ UNCHANGED <<sim, resetting, socketEvents>>
    /\ UNCHANGED simulation_fields

\* The body of the loop: simulation.step(), the emits, the periodic pass and
\* the sleep.  An exception of the body leaves through the finally clause.
RunnerTick(r) ==
    /\ runners[r].pc = "step"
    /\ \E outcome \in {"ok", "raises"} :
          IF outcome = "ok"
          THEN /\ runners' = [runners EXCEPT ![r].i = @ + 1, ![r].pc = "loop"]
               /\ UNCHANGED sim_running
          ELSE /\ runners' = [runners EXCEPT ![r].pc = "done"]
               /\ sim_running' = FALSE
    /\ UNCHANGED <<sim, resetting, socketEvents>>
    /\ UNCHANGED simulation_fields

\* After the loop: the final pass, simulation_finished, and the finally
\* clause, sim_running = False.
RunnerFinal(r) ==
    /\ runners[r].pc = "final"
    /\ runners' = [runners EXCEPT ![r].pc = "done"]
    /\ sim_running' = FALSE
    /\ UNCHANGED <<sim, resetting, socketEvents>>
    /\ UNCHANGED simulation_fields

\* One step of the thread r.
simulation_runner(r) ==
    /\ r \in DOMAIN runners
    /\ \/ RunnerBegin(r)
       \/ RunnerCheck(r)
       \/ RunnerTick(r)
       \/ RunnerFinal(r)

\* The server once it listens: the simulation prepared for the first
\* clients and no runner.
ServerInit ==
    /\ subs = create_simulation_subs(InitSubs)
    /\ steps = DEFAULT_RUN_STEPS
    /\ InitFields
    /\ \A b \in Books : availableQuantity[b] = MaxInitQty

ServerNext ==
    \/ \E requested \in StepsRequested : on_start(requested)
    \/ on_stop
    \/ on_reset
    \/ on_reset_replace
    \/ \E r \in 1..MaxServerEvents : simulation_runner(r)

SpecServer == ServerInit /\ [][ServerNext]_vars

\* A session of at most MaxFairEvents events in which the threads are
\* scheduled: a runner that can take a step takes one (the sleep of the loop
\* ends), and on_reset wakes from its sleep.
FairNext == ServerNext /\ socketEvents' <= MaxFairEvents

SpecServerFair ==
    /\ ServerInit
    /\ [][FairNext]_vars
    /\ \A r \in 1..MaxFairEvents : WF_vars(simulation_runner(r))
    /\ WF_vars(on_reset_replace)

\* ================================================================= claims
Is(e, topic) == e.topic = topic
Count(log, topic) == Len(SelectSeq(log, LAMBDA e : Is(e, topic)))
\* The operation that ran last was a customer's purchase request.
PurchaseRan(log) == Len(log) > 0 /\ Is(log[1], TOPIC_PURCHASE_REQ)

\* C1: every book's quantity is >= 0 in every state: after every operation,
\* and whenever an event is published in the middle of one.
StockNonNegative ==
    /\ \A b \in Books : availableQuantity[b] >= 0
    /\ \A i \in DOMAIN published : published[i].qty >= 0

\* A sale took the last copy: purchase.result(ok) was published at quantity 0
\* and the restock that followed has run.
LastCopySold ==
    /\ \E i \in DOMAIN published :
          /\ Is(published[i], TOPIC_PURCHASE_RES)
          /\ published[i].status = "ok"
          /\ published[i].qty = 0
    /\ Count(published, TOPIC_RESTOCK_DONE) > 0

\* C2: every restock.request is answered by exactly one restock.done, for the
\* same book, naming an employee of the roster, or None exactly when the
\* roster is empty; nothing else touches the book's quantity afterwards.
OneDonePerRequest ==
    /\ \A i \in DOMAIN published :
          Is(published[i], TOPIC_RESTOCK_REQ) =>
             /\ i < Len(published)
             /\ Is(published[i + 1], TOPIC_RESTOCK_DONE)
             /\ published[i + 1].book = published[i].book
             /\ (published[i + 1].by = None) <=> (employees = <<>>)
             /\ published[i + 1].by # None => published[i + 1].by \in Range(employees)
             /\ i + 2 <= Len(published) => ~Is(published[i + 2], TOPIC_RESTOCK_DONE)
             /\ (\A j \in (i + 2)..Len(published) : published[j].book # published[i].book)
                   => availableQuantity[published[i].book] = published[i + 1].qty
    /\ \A j \in DOMAIN published :
          Is(published[j], TOPIC_RESTOCK_DONE) =>
             j > 1 /\ Is(published[j - 1], TOPIC_RESTOCK_REQ)
    /\ Count(published, TOPIC_RESTOCK_DONE) = Count(published, TOPIC_RESTOCK_REQ)

\* A restock request was handled with nobody on the roster.
RestockedByNobody ==
    \E i \in DOMAIN published :
        Is(published[i], TOPIC_RESTOCK_DONE) /\ published[i].by = None

\* C3: a purchase request for a book at quantity <= 0 publishes
\* purchase.result(out_of_stock) and nothing else, and changes neither the
\* stock, the ledger, the transaction counter, the purchase lists nor the
\* transactions.
OutOfStockStep ==
    (/\ PurchaseRan(published')
     /\ availableQuantity[published'[1].book] <= 0)
    => /\ published' =
            <<published'[1],
              [topic |-> TOPIC_PURCHASE_RES, customer |-> published'[1].customer,
               book |-> published'[1].book, status |-> "out_of_stock",
               by |-> None, cost |-> 0,
               qty |-> availableQuantity[published'[1].book]]>>
       /\ UNCHANGED <<availableQuantity, book_sales_count, book_sales_recent,
                      total_transactions, restock_events, purchases, transactions>>

OutOfStockChangesNothing == [][OutOfStockStep]_vars

\* A customer was turned away.
TurnedAway ==
    /\ PurchaseRan(published)
    /\ \E i \in DOMAIN published : published[i].status = "out_of_stock"

\* C4: a purchase request for a book at quantity q > 0 publishes
\* purchase.result(ok) at quantity q - 1, counts one more sale of the book
\* and one more transaction, appends the book to the customer's purchases,
\* creates one Transaction, and leaves the other books' quantity and sales
\* alone.
SaleStep ==
    (/\ PurchaseRan(published')
     /\ availableQuantity[published'[1].book] > 0)
    => LET cust == published'[1].customer
           book == published'[1].book
       IN  /\ Len(published') >= 2
           /\ published'[2] =
                [topic |-> TOPIC_PURCHASE_RES, customer |-> cust, book |-> book,
                 status |-> "ok", by |-> None, cost |-> 0,
                 qty |-> availableQuantity[book] - 1]
           /\ Count(published', TOPIC_PURCHASE_RES) = 1
           /\ book_sales_count'[book] = book_sales_count[book] + 1
           /\ purchases'[cust] = Append(purchases[cust], book)
           /\ transactions \subseteq transactions'
           /\ Cardinality(transactions' \ transactions) = 1
           /\ total_transactions' = total_transactions + 1
           /\ \A other \in Books \ {book} :
                 /\ availableQuantity'[other] = availableQuantity[other]
                 /\ book_sales_count'[other] = book_sales_count[other]
                 /\ book_sales_recent'[other] = book_sales_recent[other]

SaleEffect == [][SaleStep]_vars

\* A customer bought a book while the other book had been sold before.
SoldBoth ==
    /\ PurchaseRan(published)
    /\ published[2].status = "ok"
    /\ \A b \in Books : book_sales_count[b] > 0

\* C5: after purchase.result(ok) the next event is a restock.request for the
\* purchased book exactly when the quantity left is below the threshold; a
\* purchase publishes no restock.request before its result.
RestockRequestedIffLow ==
    PurchaseRan(published) =>
       \A i \in DOMAIN published :
          /\ (Is(published[i], TOPIC_PURCHASE_RES) /\ published[i].status = "ok") =>
                ((/\ i < Len(published)
                  /\ Is(published[i + 1], TOPIC_RESTOCK_REQ)
                  /\ published[i + 1].book = published[i].book)
                 <=> published[i].qty < restock_threshold)
          /\ Is(published[i], TOPIC_RESTOCK_REQ) =>
                /\ i > 1
                /\ Is(published[i - 1], TOPIC_PURCHASE_RES)
                /\ published[i - 1].status = "ok"

\* The scenario of the specification: quantity 2, threshold 3; the sale
\* leaves 1, purchase.result(ok) fires and then restock.request.
SoldBelowThreshold ==
    /\ PurchaseRan(published)
    /\ Len(published) >= 3
    /\ published[1].qty = 2
    /\ published[2].status = "ok" /\ published[2].qty = 1
    /\ Is(published[3], TOPIC_RESTOCK_REQ)

\* The policy as the specification words it: the target for r recent sales
\* at step s under maximum level mx, and the units wanted at quantity q.
ClaimTier(r, s) ==
    LET d == Min(5, Max(1, s)) IN
    IF 2 * r >= 3 * d THEN 25
    ELSE IF r >= d THEN 15
    ELSE IF 2 * r >= d THEN 8
    ELSE IF 5 * r >= d THEN 5
    ELSE 2
ClaimTarget(r, s, mx) == Min(mx, ClaimTier(r, s))
ClaimQty(q, r, s, mx) == Min(6, Max(0, ClaimTarget(r, s, mx) - q))
\* The restock requests among the events of the last operation.  The sales
\* window, the step and the maximum level do not change once the request is
\* published, so the state after the operation holds the values it used.
Restocks(log) == {i \in DOMAIN log : Is(log[i], TOPIC_RESTOCK_REQ) /\ i < Len(log)}
RecentSales(book) == Len(book_sales_recent[book])

\* C6: restock handling adds min(6, max(0, target - q)) units, reduced so
\* that q + restock_qty <= max_stock_level, target being the tier of the
\* recent velocity capped at max_stock_level.
RestockAddsPolicyQty ==
    \A i \in Restocks(published) :
        LET q == published[i].qty
            added == published[i + 1].qty - q
            wanted == ClaimQty(q, RecentSales(published[i].book), current_step,
                               max_stock_level)
        IN  /\ added <= wanted
            /\ q + added <= max_stock_level
            /\ added = wanted \/ q + added = max_stock_level

\* What holds of C6 in every state: the units added are the wanted ones,
\* or none when the quantity already exceeds the maximum level.
RestockAddsPolicyQtyOrNothing ==
    \A i \in Restocks(published) :
        LET q == published[i].qty
            added == published[i + 1].qty - q
            wanted == ClaimQty(q, RecentSales(published[i].book), current_step,
                               max_stock_level)
        IN  added = IF q > max_stock_level THEN 0 ELSE wanted

\* C7: while the roster stays the same, consecutive restock.done events name
\* consecutive roster positions cyclically, and in every run of K of them
\* each employee of a roster of E is named floor(K/E) or ceil(K/E) times.
Position(e) == CHOOSE i \in 1..Len(employees) : employees[i] = e
TimesCredited(e, a, b) == Cardinality({i \in a..b : credited[i] = e})
RoundRobinFair ==
    Len(employees) >= 1 =>
       LET E == Len(employees) IN
       /\ \A i \in DOMAIN credited : credited[i] \in Range(employees)
       /\ \A i \in 1..(Len(credited) - 1) :
             Position(credited[i + 1]) = (Position(credited[i]) % E) + 1
       /\ \A a \in DOMAIN credited : \A b \in a..Len(credited) :
             \A e \in Range(employees) :
                LET K == b - a + 1 IN
                TimesCredited(e, a, b) \in {K \div E, (K + E - 1) \div E}

\* Three restocks in a row were shared between two employees.
ThreeRestocksTwoEmployees ==
    /\ Len(employees) = 2
    /\ Len(credited) = 3

\* C8: every book's quantity lies in [0, max_stock_level] in every state,
\* also after the maximum stock level was changed.
StockWithinMax ==
    \A b \in Books : 0 <= availableQuantity[b] /\ availableQuantity[b] <= max_stock_level

\* C9: one restock handling takes a quantity q to a quantity in
\* [q, max(q, min(q + 6, max_stock_level))].
RestockBounded ==
    \A i \in Restocks(published) :
        LET q == published[i].qty
            after == published[i + 1].qty
        IN  /\ q <= after
            /\ after <= Max(q, Min(q + 6, max_stock_level))

\* A restock was held to six units although more were needed and allowed.
RestockCappedAtSix ==
    \E i \in Restocks(published) :
        /\ published[i + 1].qty = published[i].qty + 6
        /\ published[i].qty + 6 < ClaimTarget(RecentSales(published[i].book),
                                              current_step, max_stock_level)

\* C10: a restock request for a book whose quantity is already at or above
\* the target leaves the quantity alone and publishes restock.done with cost
\* 0, and the done events of the operation are all counted.
AtTarget(log, i, r, s, mx) == log[i].qty >= ClaimTarget(r, s, mx)
ZeroRestockStep ==
    \A i \in Restocks(published') :
        AtTarget(published', i, Len(book_sales_recent'[published'[i].book]),
                 current_step', max_stock_level')
        => /\ Is(published'[i + 1], TOPIC_RESTOCK_DONE)
           /\ published'[i + 1].book = published'[i].book
           /\ published'[i + 1].qty = published'[i].qty
           /\ published'[i + 1].cost = 0
           /\ availableQuantity'[published'[i].book] = published'[i].qty
           /\ restock_events' = restock_events + Count(published', TOPIC_RESTOCK_DONE)

ZeroRestockStillDone == [][ZeroRestockStep]_vars

\* A restock request found a priced book at its target: nothing was added
\* and the event was counted.
ZeroRestockCounted ==
    /\ Len(published) = 2
    /\ Is(published[1], TOPIC_RESTOCK_REQ) /\ Is(published[2], TOPIC_RESTOCK_DONE)
    /\ AtTarget(published, 1, RecentSales(published[1].book), current_step,
                max_stock_level)
    /\ hasPrice[published[1].book] > RESTOCK_DISCOUNT
    /\ published[2].cost = 0
    /\ restock_events > 0

\* C11: the cost of every restock.done is the number of units that restock
\* added times max(0, unit price - 200); it is never negative and is 0 for a
\* book priced at 200 or less.
RestockCostIsUnitsTimesMargin ==
    \A i \in Restocks(published) :
        LET added == published[i + 1].qty - published[i].qty
            price == hasPrice[published[i].book]
            cost == published[i + 1].cost
        IN  /\ cost = added * (IF price > 200 THEN price - 200 ELSE 0)
            /\ cost >= 0
            /\ price <= 200 => cost = 0

\* The scenario of the specification: a book priced 1250 at quantity 1 with
\* three recent sales is restocked by six units for 6300.
RestockCosts6300 ==
    \E i \in Restocks(published) :
        /\ published[i].qty = 1
        /\ RecentSales(published[i].book) = 3
        /\ current_step >= 5
        /\ published[i + 1].qty = 7
        /\ hasPrice[published[i].book] = 1250
        /\ published[i + 1].cost = 6300

\* C12: for a fixed quantity and maximum stock level the target, and with it
\* the amount restocked, never decreases when the recent velocity increases:
\* the restock that ran is compared with every other velocity r2 / d2, d2
\* being the steps counted at a step s2 (every step after the fifth counts 5).
StepsCounted(s) == Min(5, Max(1, s))
VelocityMonotone ==
    \A i \in Restocks(published) :
        LET q == published[i].qty
            added == published[i + 1].qty - q
            r == RecentSales(published[i].book)
            d == StepsCounted(current_step)
        IN  \A r2 \in 0..MaxPolicySales : \A s2 \in 1..5 :
               LET d2 == StepsCounted(s2) IN
               /\ r2 * d <= r * d2 =>
                     /\ target_stock(r2, d2, max_stock_level)
                           <= target_stock(r, d, max_stock_level)
                     /\ restock_qty(q, r2, s2, max_stock_level) <= added
               /\ r * d2 <= r2 * d =>
                     /\ target_stock(r, d, max_stock_level)
                           <= target_stock(r2, d2, max_stock_level)
                     /\ added <= restock_qty(q, r2, s2, max_stock_level)

\* A book was restocked by some units where a slower seller would have got
\* fewer and a faster seller more.
RestockedBetweenTiers ==
    \E i \in Restocks(published) :
        LET q == published[i].qty
            added == published[i + 1].qty - q
        IN  /\ \E r2 \in 0..MaxPolicySales : \E s2 \in 0..MaxPolicyStep :
                  restock_qty(q, r2, s2, max_stock_level) < added
            /\ \E r2 \in 0..MaxPolicySales : \E s2 \in 0..MaxPolicyStep :
                  restock_qty(q, r2, s2, max_stock_level) > added

\* C13: no two Transaction records of a run have the same id: there are as
\* many different ids as there were successful purchases.
RECURSIVE SumOver(_, _)
SumOver(f, S) ==
    IF S = {} THEN 0
    ELSE LET x == CHOOSE y \in S : TRUE IN f[x] + SumOver(f, S \ {x})
TransactionIdsUnique ==
    /\ Cardinality(transactions) = SumOver(book_sales_count, Books)
    /\ \A t1, t2 \in transactions : t1[Len(t1)] = t2[Len(t2)] => t1 = t2

\* One customer bought the same book twice.
BoughtSameBookTwice ==
    /\ Len(customers) = 1
    /\ \E b \in Books : book_sales_count[b] = 2

\* C14: a purchase.request or restock.request whose customer or book is
\* missing or None makes the handler raise to the publisher.
Malformed(e) ==
    \/ Is(e, TOPIC_PURCHASE_REQ)
          /\ (e.customer \in {None, Missing} \/ e.book \in {None, Missing})
    \/ Is(e, TOPIC_RESTOCK_REQ) /\ e.book \in {None, Missing}
MalformedRequestRaises ==
    (published # <<>> /\ Malformed(published[1])) => raised

\* C15: every publish calls the handlers subscribed to its topic, each once
\* and in the order of subscription, with the payload that was published,
\* and nothing else; a publish to a topic without subscribers calls nothing.
CallsOf(k) == SelectSeq(called, LAMBDA c : c.event = k)
PublishCallsSubscribersInOrder ==
    /\ \A k \in DOMAIN published :
          LET e == published[k]
              calls == CallsOf(k)
          IN  /\ [i \in 1..Len(calls) |-> calls[i].handler] = subscribers(subs, e.topic)
              /\ \A i \in 1..Len(calls) :
                    calls[i].payload = Payload(e.customer, e.book, e.status, e.by, e.cost)
    /\ \A i \in DOMAIN called : called[i].event \in DOMAIN published

\* A purchase request went to the purchase handler and then to the logger,
\* the sale and its restock being published in between; the restock.done
\* reached its two subscribers.
RequestLoggedAfterCascade ==
    /\ Len(published) = 4
    /\ Len(called) = 7
    /\ called[1].handler = "_handle_purchase" /\ called[1].event = 1
    /\ called[7].handler = "log_purchase_request" /\ called[7].event = 1
    /\ Len(CallsOf(4)) = 2

\* C16: run() makes exactly `steps' ticks one after another; a tick adds
\* exactly 1 to current_step and calls the step of every agent registered
\* when it starts exactly once, and when run() is over current_step = steps.
TickStep ==
    /\ current_step' \in {current_step, current_step + 1}
    /\ current_step' = current_step + 1 =>
          /\ \A a \in DOMAIN stepped : stepped[a] = 1
          /\ DOMAIN stepped' = agents
          /\ \A a \in agents : stepped'[a] = 0
    /\ current_step' = current_step =>
          /\ DOMAIN stepped' = DOMAIN stepped
          /\ \A a \in DOMAIN stepped : stepped'[a] \in {stepped[a], stepped[a] + 1}
    /\ \A a \in DOMAIN stepped' : stepped'[a] <= 1
RunOver == ~ENABLED RunNext
RunMakesEveryTick ==
    /\ [][TickStep]_vars
    /\ [](RunOver => /\ current_step = MaxSteps
                      /\ DOMAIN stepped = agents
                      /\ \A a \in agents : stepped[a] = 1)

\* The run is over: the last tick has called every agent.
RunFinished ==
    /\ current_step = MaxSteps
    /\ pending = {}
    /\ \A a \in agents : stepped[a] = 1
    /\ total_transactions > 0

\* C17: runs with the same seed and the same data make the same events and
\* end in the same stock, ledger and counters.  The seed is an argument of
\* the constructor and the same in every state of a run, so whenever a
\* customer's agent is the next to step, whether the step publishes a
\* purchase.request is decided by the state it starts in: a step that
\* publishes nothing and a step that publishes are not both possible.
StepsQuietly(a) == ENABLED (CustomerStep(a) /\ published' = <<>>)
StepsPublishing(a) == ENABLED (CustomerStep(a) /\ published' # <<>>)
SameSeedSameRun ==
    \A a \in pending \cap DOMAIN purchases :
        ~(StepsQuietly(a) /\ StepsPublishing(a))

\* C18: the mutations of a tick and those of the socket handlers are
\* serialized: no socket handler changes the roster, the maximum stock level
\* or the stock while a tick has agents still to step.
TickNotInterleavedStep == socketEvents' # socketEvents => pending = {}
TickNotInterleaved == [][TickNotInterleavedStep]_vars

\* C19 as claimed: a successful purchase at step s appends s to the book's
\* window and removes exactly the entries < s - 5, keeping one made at s - 5.
Sold(log) == PurchaseRan(log) /\ Len(log) >= 2 /\ log[2].status = "ok"
KeepsFiveBackStep ==
    Sold(published') =>
        LET book == published'[1].book IN
        book_sales_recent'[book] =
            SelectSeq(Append(book_sales_recent[book], current_step),
                      LAMBDA x : x >= current_step - 5)
PruneKeepsFiveBack == [][KeepsFiveBackStep]_vars

\* C19 amended: a successful purchase at step s appends s to the book's
\* window and removes exactly the entries <= max(0, s - 5): a sale made at
\* s - 5 is removed, every later one is kept, in order.
DropsFiveBackStep ==
    Sold(published') =>
        LET book == published'[1].book
            old == book_sales_recent[book]
            new == book_sales_recent'[book]
            kept == {i \in DOMAIN old : old[i] > current_step - 5 /\ old[i] > 0}
            with_sale == IF current_step > 0 THEN 1 ELSE 0
        IN  /\ Len(new) = Cardinality(kept) + with_sale
            /\ \A i \in kept :
                  new[Cardinality({j \in kept : j <= i})] = old[i]
            /\ current_step > 0 => new[Len(new)] = current_step
            /\ \A other \in Books \ {book} :
                  book_sales_recent'[other] = book_sales_recent[other]
PruneDropsFiveBack == [][DropsFiveBackStep]_vars

\* A sale at step 6 removed the sale of step 1 from the window.
SaleFiveBackRemoved ==
    /\ Sold(published)
    /\ current_step = 6
    /\ book_sales_count[published[1].book] = 2
    /\ book_sales_recent[published[1].book] = <<6>>

\* C20: the recent-sales count restock handling uses holds only sales made
\* within the five steps that end at the current step.
WithinHorizon(book) ==
    Cardinality({i \in DOMAIN book_sales_recent[book] :
                    book_sales_recent[book][i] >= current_step - 5})
RestockCountsOnlyRecentSales ==
    \A i \in Restocks(published) :
        RecentSales(published[i].book) = WithinHorizon(published[i].book)

\* C21: however add_employee, remove_employee and restock requests are
\* interleaved, every restock.done names an employee who is on the roster
\* when the request is handled, and names nobody exactly when the roster is
\* empty; a roster operation publishes nothing, so the roster of the state is
\* the roster the last operation's requests were handled with.
DoneNamesRosterMember ==
    \A i \in DOMAIN published :
        Is(published[i], TOPIC_RESTOCK_DONE) =>
            IF employees = <<>> THEN published[i].by = None
            ELSE \E p \in 1..Len(employees) : published[i].by = employees[p]

\* Emp_1 was added, Emp_0 removed after a restock had advanced the index
\* past the end of the shorter roster, and the next restock names Emp_1.
RestockedByTheOneWhoStayed ==
    /\ employees = <<"Emp_1">>
    /\ socketEvents = 2
    /\ restock_events = 2
    /\ \E i \in DOMAIN published :
          Is(published[i], TOPIC_RESTOCK_DONE) /\ published[i].by = "Emp_1"

\* C22: a customer or employee the dashboard added is on the roster once and
\* has an agent, one that was removed is on no roster and has none; the tick
\* that starts calls the agents of exactly the rosters' members, every agent
\* a tick started with has acted once when the tick is over, and a
\* purchase.request names only a customer who was on the roster when the
\* running tick started: after remove_customer(c) no later tick publishes
\* one for c.
Occurrences(roster, x) == Cardinality({i \in DOMAIN roster : roster[i] = x})
RostersHaveAgents ==
    /\ \A c \in CustomerNames :
          /\ Occurrences(customers, c) = (IF c \in agents THEN 1 ELSE 0)
    /\ \A e \in EmployeeNames :
          /\ Occurrences(employees, e) = (IF e \in agents THEN 1 ELSE 0)
    /\ agents \subseteq CustomerNames \cup EmployeeNames
TickCallsMembersStep ==
    /\ current_step' = current_step + 1 =>
          DOMAIN stepped' = Range(customers') \cup Range(employees')
    /\ PurchaseRan(published') =>
          /\ published'[1].customer \in DOMAIN stepped
          /\ stepped'[published'[1].customer] = stepped[published'[1].customer] + 1
MembersActWhileOnRoster ==
    /\ [][TickCallsMembersStep]_vars
    /\ [](RostersHaveAgents)
    /\ [](pending = {} => \A a \in DOMAIN stepped : stepped[a] = 1)

\* The customer bought a book in the first tick and was removed; the second
\* tick ran to its end without them.
RemovedCustomerSatOutATick ==
    /\ customers = <<>>
    /\ total_transactions > 0
    /\ current_step = 2
    /\ pending = {}
    /\ "Kasun_Silva" \notin DOMAIN stepped
    /\ \A a \in DOMAIN stepped : stepped[a] = 1

\* C23: no operation decreases current_step, total_transactions,
\* restock_events or a book's total sales; an operation adds to
\* total_transactions the number of purchase.result(ok) events it published
\* and to restock_events the number of restock.done events it published,
\* those of restocks that added no unit included.
OkResults(log) ==
    Len(SelectSeq(log, LAMBDA e : Is(e, TOPIC_PURCHASE_RES) /\ e.status = "ok"))
CountersStep ==
    /\ current_step' >= current_step
    /\ total_transactions' >= total_transactions
    /\ restock_events' >= restock_events
    /\ \A b \in Books : book_sales_count'[b] >= book_sales_count[b]
    /\ total_transactions' = total_transactions + OkResults(published')
    /\ restock_events' = restock_events + Count(published', TOPIC_RESTOCK_DONE)
CountersOnlyGrow == [][CountersStep]_vars

\* After a sale and a restock, a restock that added no unit was counted.
EmptyRestockCountedAfterSale ==
    /\ total_transactions >= 1
    /\ restock_events >= 2
    /\ \E i \in Restocks(published) : published[i + 1].qty = published[i].qty

\* C24: during run() the reasoner pass is made once after every tick whose
\* number is a multiple of 5, when that tick is over, and after no other
\* tick; one more pass is made after the final tick.  A pass that fails
\* raises nothing, changes neither stock, ledger nor counters, and the run
\* goes on with the next tick.
PeriodicPasses(tick) == Cardinality(PassesAfter(tick, FALSE))
FinalPasses == {i \in DOMAIN reasoner_runs : reasoner_runs[i].final}
ProgramOver == ~ENABLED HookNext
PassSchedule ==
    /\ \A i \in DOMAIN reasoner_runs :
          /\ reasoner_runs[i].after \in 1..current_step
          /\ ~reasoner_runs[i].final => reasoner_runs[i].after % 5 = 0
          /\ reasoner_runs[i].final => reasoner_runs[i].after = steps /\ i = Len(reasoner_runs)
          /\ i > 1 => reasoner_runs[i - 1].after <= reasoner_runs[i].after
    /\ \A tick \in 1..current_step :
          tick % 5 = 0 =>
             IF tick < current_step THEN PeriodicPasses(tick) = 1
             ELSE /\ PeriodicPasses(tick) <= 1
                  /\ PeriodicPasses(tick) = 1 => pending = {}
    /\ Cardinality(FinalPasses) <= 1
    /\ ProgramOver =>
          /\ current_step = steps
          /\ Cardinality(FinalPasses) = 1
          /\ \A tick \in 1..steps : tick % 5 = 0 => PeriodicPasses(tick) = 1
FailedPassStep ==
    (/\ Len(reasoner_runs') = Len(reasoner_runs) + 1
     /\ reasoner_runs'[Len(reasoner_runs')].failed)
    => /\ ~raised'
       /\ UNCHANGED <<availableQuantity, hasPrice, purchases, transactions,
                      book_sales_count, book_sales_recent, total_transactions,
                      restock_events, current_step, next_employee_index,
                      customers, employees, subs>>
RunGoesOnAfterFailedPass ==
    (/\ reasoner_runs # <<>>
     /\ reasoner_runs[Len(reasoner_runs)].failed
     /\ reasoner_runs[Len(reasoner_runs)].after = current_step
     /\ pending = {}
     /\ current_step < steps)
    => ENABLED RunTick
PassesEveryFifthTickAndFinal ==
    /\ [][FailedPassStep]_vars
    /\ [](PassSchedule)
    /\ [](RunGoesOnAfterFailedPass)

\* The pass after tick 5 failed, tick 6 was made with a sale in it, and the
\* final pass followed.
FailedPassThenTickSix ==
    /\ steps = 6
    /\ Len(reasoner_runs) = 2
    /\ reasoner_runs[1] = [after |-> 5, final |-> FALSE, failed |-> TRUE]
    /\ reasoner_runs[2].after = 6 /\ reasoner_runs[2].final
    /\ \E i \in DOMAIN book_sales_recent["Book_0"] : book_sales_recent["Book_0"][i] = 6

\* C25: the quantities, the sales ledger, the two counters and the
\* round-robin index change only inside the bus handlers: a book's quantity
\* only in an operation that called the purchase or the restock handler for
\* that book, its ledger and the transaction counter only with the purchase
\* handler, restock_events only with the restock.done handler, the index
\* only with the restock handler; an agent's step that publishes nothing
\* changes none of them.
HandlerCalled(log, handler, books) ==
    \E i \in DOMAIN log : log[i].handler = handler /\ log[i].payload.book \in books
AgentStepped == current_step' = current_step /\ stepped' # stepped
OnlyHandlersMutateStep ==
    /\ \A b \in Books :
          /\ availableQuantity'[b] # availableQuantity[b] =>
                \/ HandlerCalled(called', "_handle_purchase", {b})
                \/ HandlerCalled(called', "_perform_restock", {b})
          /\ (\/ book_sales_count'[b] # book_sales_count[b]
              \/ book_sales_recent'[b] # book_sales_recent[b]) =>
                HandlerCalled(called', "_handle_purchase", {b})
    /\ (total_transactions' # total_transactions \/ transactions' # transactions) =>
          HandlerCalled(called', "_handle_purchase", Books)
    /\ restock_events' # restock_events =>
          HandlerCalled(called', "_count_restock", Books)
    /\ next_employee_index' # next_employee_index =>
          HandlerCalled(called', "_perform_restock", Books)
    /\ (AgentStepped /\ published' = <<>>) =>
          UNCHANGED <<availableQuantity, book_sales_count, book_sales_recent,
                      total_transactions, transactions, purchases, restock_events,
                      next_employee_index>>
OnlyHandlersMutate == [][OnlyHandlersMutateStep]_vars

\* An employee's proactive check had a book restocked: the units were added
\* by the restock handler its request called.
EmployeeRestockedThroughBus ==
    /\ socketEvents = 0
    /\ Len(published) = 2
    /\ Is(published[1], TOPIC_RESTOCK_REQ)
    /\ published[2].qty > published[1].qty
    /\ called[1].handler = "_perform_restock"

\* C26 as claimed: the handling of a request publishes only result and done
\* events, no handler of a result or done event publishes, and so no event
\* is published more than two publish calls deep.
Requests == {TOPIC_PURCHASE_REQ, TOPIC_RESTOCK_REQ}
Answers == {TOPIC_PURCHASE_RES, TOPIC_RESTOCK_DONE}
RECURSIVE Depth(_)
Depth(i) == IF parents[i] = 0 THEN 1 ELSE 1 + Depth(parents[i])
RECURSIVE Root(_)
Root(i) == IF parents[i] = 0 THEN i ELSE Root(parents[i])
RequestsPublishOnlyAnswers ==
    \A i \in DOMAIN published :
        /\ parents[i] # 0 =>
              /\ published[parents[i]].topic \in Requests
              /\ published[i].topic \in Answers
        /\ Depth(i) <= 2

\* C26 amended: the handling of a request publishes only result and done
\* events, except that the handling of a purchase.request publishes, after
\* purchase.result(ok), at most one restock.request; no handler of a result
\* or done event publishes; no event is published more than three publish
\* calls deep and a publish call returns after at most four events.
ChainsEndAfterRestock ==
    \A i \in DOMAIN published :
        /\ parents[i] < i
        /\ parents[i] # 0 =>
              /\ published[parents[i]].topic \in Requests
              /\ \/ published[i].topic \in Answers
                 \/ /\ Is(published[parents[i]], TOPIC_PURCHASE_REQ)
                    /\ Is(published[i], TOPIC_RESTOCK_REQ)
                    /\ Is(published[i - 1], TOPIC_PURCHASE_RES)
                    /\ published[i - 1].status = "ok"
                    /\ parents[i - 1] = parents[i]
        /\ Cardinality({j \in DOMAIN published :
                           parents[j] = i /\ Is(published[j], TOPIC_RESTOCK_REQ)}) <= 1
        /\ Depth(i) <= 3
        /\ Cardinality({j \in DOMAIN published : Root(j) = Root(i)}) <= 4

\* A purchase request was answered by purchase.result(ok) and a
\* restock.request, whose handling published restock.done three calls deep,
\* every event passing the loggers.
RestockDoneThreeDeep ==
    /\ parents = <<0, 1, 1, 3>>
    /\ Is(published[4], TOPIC_RESTOCK_DONE)
    /\ HandlerCalled(called, "log_restock_done", Books)


\* C27: a handler that raises on a payload without the key it reads ends the
\* publish: the exception reaches the publisher and no handler is called
\* after it, those subscribed after it for that event included; the
\* subscription table never changes, and a publish in which nothing raises
\* calls every subscriber of its topic, whatever was raised before.
KeyErrorIn(c) ==
    \/ /\ c.handler \in {"_handle_purchase", "log_purchase_request", "log_purchase_result"}
       /\ c.payload.customer = Missing \/ c.payload.book = Missing
    \/ /\ c.handler \in {"log_restock_request", "log_restock_done"}
       /\ c.payload.book = Missing
HandlersCalled(k) == [i \in 1..Len(CallsOf(k)) |-> CallsOf(k)[i].handler]
RaiseEndsPublish ==
    /\ \A i \in DOMAIN called :
          KeyErrorIn(called[i]) =>
             /\ raised
             /\ i = Len(called)
             /\ HandlersCalled(called[i].event) =
                   SubSeq(subscribers(subs, published[called[i].event].topic),
                          1, Len(HandlersCalled(called[i].event)))
    /\ ~raised =>
          \A k \in DOMAIN published :
             HandlersCalled(k) = subscribers(subs, published[k].topic)
RaisePropagatesTableKept ==
    /\ [][subs' = subs]_vars
    /\ [](RaiseEndsPublish)

\* A request without a customer made the purchase handler raise before the
\* logger subscribed after it was called.
LoggerSkippedAfterRaise ==
    /\ raised
    /\ Len(published) = 1
    /\ Is(published[1], TOPIC_PURCHASE_REQ)
    /\ published[1].customer = Missing
    /\ HandlersCalled(1) = <<"_handle_purchase">>
    /\ subscribers(subs, TOPIC_PURCHASE_REQ) = <<"_handle_purchase", "log_purchase_request">>
    /\ total_transactions > 0


\* C28: a restock.request published in an agent's step, by the purchase
\* handler or by an employee's proactive check, is for a book whose quantity
\* is below the restock threshold when it is published; the step of an
\* employee's agent publishes at most one, and none when no book was below
\* the threshold, and the agent steps at most once in a tick.
SteppingAgents == {a \in DOMAIN stepped : stepped'[a] = stepped[a] + 1}
RestockRequestsForLowBooksStep ==
    AgentStepped =>
       /\ \A i \in DOMAIN published' :
             Is(published'[i], TOPIC_RESTOCK_REQ) =>
                published'[i].qty < restock_threshold
       /\ \A a \in SteppingAgents \cap EmployeeNames :
             /\ Count(published', TOPIC_RESTOCK_REQ) <= 1
             /\ (\A b \in Books : availableQuantity[b] >= restock_threshold) =>
                   published' = <<>>
             /\ stepped'[a] = 1
RestockRequestsForLowBooks == [][RestockRequestsForLowBooksStep]_vars

\* An employee's check asked for the one book that was below the threshold.
EmployeeAskedForTheLowBook ==
    /\ socketEvents = 0
    /\ \E a \in EmployeeNames \cap DOMAIN stepped : stepped[a] = 1
    /\ published # <<>>
    /\ Is(published[1], TOPIC_RESTOCK_REQ)
    /\ published[1].qty < restock_threshold
    /\ \E b \in Books \ {published[1].book} : availableQuantity[b] >= restock_threshold


\* C29: in a single-threaded run with the default threshold 3 and maximum
\* stock level 10 and every book seeded with at least one copy, no purchase
\* is answered out_of_stock: a sale that leaves the book below the threshold
\* has it restocked to at least 5 before the purchase handler returns, and
\* after every agent's action a book that was ever sold has at least 3
\* copies.
SoldBooksStayStocked ==
    /\ \A i \in DOMAIN published :
          /\ published[i].status # "out_of_stock"
          /\ (/\ Is(published[i], TOPIC_PURCHASE_RES)
              /\ published[i].qty < LOW_STOCK_THRESHOLD) =>
                /\ i + 2 <= Len(published)
                /\ Is(published[i + 1], TOPIC_RESTOCK_REQ)
                /\ Is(published[i + 2], TOPIC_RESTOCK_DONE)
                /\ parents[i + 1] = parents[i]
                /\ parents[i + 2] = i + 1
                /\ published[i + 2].book = published[i].book
                /\ published[i + 2].qty >= 5
                /\ availableQuantity[published[i].book] >= 5
    /\ \A b \in Books : book_sales_count[b] > 0 => availableQuantity[b] >= 3
    /\ \A b \in Books : availableQuantity[b] >= 1

\* The first sale of a book, made in tick 5, took its last copy: the
\* velocity of 0.2 had it restocked to 5.
LastCopySoldInTickFive ==
    /\ PurchaseRan(published)
    /\ current_step = 5
    /\ book_sales_count[published[1].book] = 1
    /\ published[1].qty = 1
    /\ Len(published) = 4
    /\ published[4].qty = 5


\* C30 as claimed: when the maximum stock level is at least the restock
\* threshold, a book that restock handling has dealt with is no longer below
\* the threshold, and so is not among the books an employee's scan selects
\* from.
RestockLiftsOverThreshold ==
    \A i \in Restocks(published) :
        max_stock_level >= restock_threshold =>
           /\ published[i + 1].qty >= restock_threshold
           /\ published[i].book \notin low_stock_books(M)

\* C30 amended: the same for a book whose recent velocity is at least 0.2
\* (at least one recent sale per five steps counted); a slower book has the
\* target 2 and may stay below the threshold.
RestockLiftsSellingBookOverThreshold ==
    \A i \in Restocks(published) :
        (/\ max_stock_level >= restock_threshold
         /\ 5 * RecentSales(published[i].book) >= StepsCounted(current_step)) =>
           /\ published[i + 1].qty >= restock_threshold
           /\ published[i].book \notin low_stock_books(M)

\* A book out of stock with one sale in the last five steps was restocked to
\* 5 and is no longer low, unlike the books not restocked.
SlowSellerLiftedOverThreshold ==
    \E i \in Restocks(published) :
        /\ published[i].qty = 0
        /\ RecentSales(published[i].book) = 1
        /\ current_step >= 5
        /\ max_stock_level >= restock_threshold
        /\ published[i + 1].qty = 5
        /\ low_stock_books(M) = Books \ {published[i].book}


\* C31: stock is conserved in a single-threaded run.  A run starts with no
\* sale and no restock, and every operation changes a book's quantity by the
\* units the restocks of that book added in it less the sales of the book it
\* counted, so that in every state quantity = seeded quantity + units added
\* by all restocks of the book - the book's total sales; and
\* total_transactions is the sum of the books' total sales.
RestocksOf(log, book) == {i \in Restocks(log) : log[i].book = book}
UnitsRestocked(log, book) ==
    SumOver([i \in RestocksOf(log, book) |-> log[i + 1].qty - log[i].qty],
            RestocksOf(log, book))
ConservedStep ==
    \A b \in Books :
        availableQuantity'[b] =
            availableQuantity[b] + UnitsRestocked(published', b)
                - (book_sales_count'[b] - book_sales_count[b])
StockConserved ==
    /\ restock_events = 0 /\ \A b \in Books : book_sales_count[b] = 0
    /\ [][ConservedStep]_vars
    /\ [](total_transactions = SumOver(book_sales_count, Books))

\* Both books have been sold, and the last sale took a book under the
\* threshold and had units added to it in the same operation.
SoldAndRestockedAtOnce ==
    /\ Sold(published)
    /\ \A b \in Books : book_sales_count[b] > 0
    /\ UnitsRestocked(published, published[1].book) > 0
    /\ total_transactions >= 3


\* C32: an observer subscribed to the four topics after the model was
\* constructed, as the terminal logger is, is notified of each
\* purchase.request before the purchase.result of that request and of each
\* restock.request before the restock.done of that request, and when it is
\* notified of a request the book's quantity is still the one the request
\* was published at.
Observers == {"log_purchase_request", "log_purchase_result",
              "log_restock_request", "log_restock_done"}
AnswerTopic(topic) ==
    IF topic = TOPIC_PURCHASE_REQ THEN TOPIC_PURCHASE_RES ELSE TOPIC_RESTOCK_DONE
\* Event j is the answer to the request published as event k.
AnswerOf(j, k) ==
    /\ published[k].topic \in Requests
    /\ parents[j] = k
    /\ published[j].topic = AnswerTopic(published[k].topic)
ObserverNotifiedOfRequestFirst ==
    /\ \A i, j \in DOMAIN called :
          (/\ called[i].handler \in Observers
           /\ called[j].handler \in Observers
           /\ AnswerOf(called[j].event, called[i].event)) => i < j
    /\ \A i \in DOMAIN called :
          (/\ called[i].handler \in Observers
           /\ published[called[i].event].topic \in Requests) =>
                called[i].qty = published[called[i].event].qty


\* C33: under any interleaving of start_simulation, stop_simulation and
\* reset_simulation with the runner threads, at most one simulation_runner
\* is inside a tick at any time, and a runner whose simulation was stopped
\* or replaced starts no tick after the one in progress.
InTick == {r \in DOMAIN runners : runners[r].pc = "step"}
NoTickOnceHaltedStep ==
    \A r \in DOMAIN runners :
        (runners[r].halted /\ runners'[r].pc = "step") => runners[r].pc = "step"
OneRunnerStopsWhenTold ==
    /\ [](Cardinality(InTick) <= 1)
    /\ [][NoTickOnceHaltedStep]_vars


\* C34: every simulation_runner that was started eventually returns.  It
\* starts at most `steps' ticks; a check of the loop that finds sim_running
\* cleared leaves the loop, and no tick follows; and whichever way the
\* runner returns, after the loop, after the break or by an exception of a
\* tick, sim_running is False when it has returned.
Returned(r) == r \in DOMAIN runners /\ runners[r].pc = "done"
RunnerStep ==
    \A r \in DOMAIN runners :
        /\ (/\ runners[r].pc = "loop"
            /\ ~sim_running
            /\ runners'[r].pc # "loop") =>
               /\ runners'[r].pc = "final"
               /\ runners'[r].i = runners[r].i
        /\ runners[r].pc = "final" => runners'[r].pc \in {"final", "done"}
        /\ runners[r].pc = "done" => runners'[r] = runners[r]
        /\ (runners[r].pc # "done" /\ runners'[r].pc = "done") => ~sim_running'
====
